---- MODULE Spec2Model ----
(***************************************************************************)
(* A model of idena-go's blockchain core (src/blockchain/blockchain.go):   *)
(* genesis, empty blocks, block proposal, block validation, the state      *)
(* transition (applyBlock / processTxs) and the proposer sortition check.  *)
(*                                                                         *)
(* Hashes, seeds, proofs and roots are modelled as tagged tuples           *)
(* <<tag, payload>>: a hash function is an injective constructor, so two   *)
(* hashes are equal exactly when what was hashed is equal.                 *)
(***************************************************************************)
EXTENDS Integers, Sequences, FiniteSets, TLC

VARIABLES
    chainHead,  \* chain.Head: the in-memory head block (NoBlock before InitializeChain)
    repo,       \* chain.repo: stored blocks, persisted head, canonical height -> hash
    state,      \* chain.appState.State: the canonical StateDB handle
    txpool,     \* the mempool, as far as the chain drives it (ResetTo calls)
    vcache,     \* appState.ValidatorsCache, as far as the chain drives it
    last,       \* the last completed call: operation, returned error, what it was given
    calls       \* per goroutine, the AddBlock call it is in and the line it has reached

vars == <<chainHead, repo, state, txpool, vcache, last, calls>>

----------------------------------------------------------------------------
(* Bounds of the model *)

MaxHeight == 3      \* AddBlock is offered only while Head.Height < MaxHeight
MaxTxs == 2         \* transactions per block
MaxNonce == 3       \* AccountNonce of an offered transaction is in 1..MaxNonce

(* Program constants *)

ProposerRole == 1
BlockReward == 5
Testnet == 2

----------------------------------------------------------------------------
(* Addresses, keys, hashes *)

ZeroAddr == "zero"                  \* common.Address{}
Addr == {"a1", "cb", ZeroAddr}
OwnKey == "own"                     \* the secret key given to InitializeChain
Keys == {OwnKey, "oth"}
AddrOfKey(k) == IF k = OwnKey THEN "cb" ELSE "a1"

ZeroHash == <<"zero", <<>>>>        \* common.Hash{} / [32]byte{}
NilBytes == <<"junk", <<>>>>        \* a nil / malformed byte string

U64(n) == <<"u64", <<n>>>>
U8(n) == <<"u8", <<n>>>>

Keccak256Hash(data) == <<"keccak", <<data>>>>

FromECDSAPub(k) == <<"pk", <<k>>>>
BadPubBytes == NilBytes
UnmarshalPubkey(bytes) ==
    IF bytes[1] = "pk" THEN [key |-> bytes[2][1], err |-> "nil"]
                       ELSE [key |-> "none", err |-> "InvalidPubkey"]

(* vrf.PrivateKey.Evaluate and vrf.PublicKey.ProofToHash *)
Evaluate(k, m) ==
    [hash |-> <<"vrf", <<k, m>>>>, proof |-> <<"proof", <<k, m>>>>]
NilProof == <<"nil", <<>>>>
ProofToHash(k, m, proof) ==
    IF proof = Evaluate(k, m).proof
        THEN [hash |-> Evaluate(k, m).hash, err |-> "nil"]
        ELSE [hash |-> ZeroHash, err |-> "InvalidVRF"]

----------------------------------------------------------------------------
(* Transactions *)

MkTx(signer, nonce, type, to, amount) ==
    [signer |-> signer, AccountNonce |-> nonce, Type |-> type, To |-> to,
     Amount |-> amount]

(* types.Sender: the address recovered from the signature, the zero address
   (and an error, which processTxs drops) when recovery fails *)
Sender(tx) == IF tx.signer = "bad" THEN ZeroAddr ELSE tx.signer

DeriveSha(txs) == <<"sha", <<txs>>>>

----------------------------------------------------------------------------
(* core/state.StateDB: objs is what Get/Set read and write, tree is what
   Precommit has written, saved is the last committed version *)

Accounts == [balance : [Addr -> Int], nonce : [Addr -> Nat], approved : [Addr -> BOOLEAN]]

EmptyAccounts ==
    [balance |-> [a \in Addr |-> 0], nonce |-> [a \in Addr |-> 0],
     approved |-> [a \in Addr |-> FALSE]]

GetNonce(st, a) == st.objs.nonce[a]
GetBalance(st, a) == st.objs.balance[a]
SetNonce(st, a, n) == [st EXCEPT !.objs.nonce[a] = n]
SetBalance(st, a, v) == [st EXCEPT !.objs.balance[a] = v]
AddBalance(st, a, v) == [st EXCEPT !.objs.balance[a] = @ + v]
SubBalance(st, a, v) == [st EXCEPT !.objs.balance[a] = @ - v]
Approve(st, a) == [st EXCEPT !.objs.approved[a] = TRUE]
Precommit(st) == [st EXCEPT !.tree = st.objs]
Root(st) == <<"root", <<st.tree>>>>
Commit(st) ==
    [objs |-> st.objs, tree |-> st.objs, saved |-> st.objs, version |-> st.version + 1]
Reset(st) == [st EXCEPT !.objs = st.saved, !.tree = st.saved]
NewForCheck(st) ==
    [objs |-> st.saved, tree |-> st.saved, saved |-> st.saved, version |-> st.version]

----------------------------------------------------------------------------
(* Blocks *)

ProposedHeader(parent, height, time, pub, txHash, coinbase, root) ==
    [kind |-> "proposed", ParentHash |-> parent, Height |-> height, Time |-> time,
     ProposerPubKey |-> pub, TxHash |-> txHash, Coinbase |-> coinbase, Root |-> root]

EmptyBlockHeader(parent, height, root) ==
    [kind |-> "empty", ParentHash |-> parent, Height |-> height, Time |-> 0,
     ProposerPubKey |-> BadPubBytes, TxHash |-> ZeroHash, Coinbase |-> ZeroAddr,
     Root |-> root]

MkBlock(header, txs, seed, proof) ==
    [Header |-> header,
     Body |-> [Transactions |-> txs, BlockSeed |-> seed, SeedProof |-> proof]]

NoBlock ==
    MkBlock([kind |-> "none", ParentHash |-> ZeroHash, Height |-> 0, Time |-> 0,
             ProposerPubKey |-> NilBytes, TxHash |-> ZeroHash, Coinbase |-> ZeroAddr,
             Root |-> ZeroHash], <<>>, ZeroHash, NilProof)

IsEmpty(b) == b.Header.kind = "empty"
Hash(b) == <<"H", <<b.Header>>>>
Height(b) == b.Header.Height
Seed(b) == b.Body.BlockSeed

----------------------------------------------------------------------------
(* The state transition: processTxs, applyAndValidateBlockState, applyBlock.
   Each returns the error and the state handle as the call leaves it; log
   records, per transaction reached, the nonce read and whether the
   transaction went on to mutate the handle. *)

getTxFee(tx) == 0

NonceOK_AllowsGap(st, tx) == GetNonce(st, Sender(tx)) + 1 <= tx.AccountNonce

NonceOK(st, tx) == GetNonce(st, Sender(tx)) + 1 = tx.AccountNonce

FundsOK_Strict(st, tx) == GetBalance(st, Sender(tx)) - tx.Amount - getTxFee(tx) > 0

FundsOK(st, tx) == GetBalance(st, Sender(tx)) - tx.Amount - getTxFee(tx) >= 0

NextNonce(tx) == tx.AccountNonce + 1

ApplyTx(st, tx) ==
    LET sender == Sender(tx)
        s1 == CASE tx.Type = "ApprovingTx" -> Approve(st, sender)
                [] tx.Type = "SendTx" ->
                     AddBalance(SubBalance(SubBalance(st, sender, tx.Amount),
                                           sender, getTxFee(tx)),
                                tx.To, tx.Amount)
                [] OTHER -> st
    IN  SetNonce(s1, sender, NextNonce(tx))

(* What processTxs read for a transaction it reached (the nonce and the
   balances of sender and recipient), whether the transaction went on to
   mutate the handle, and the two balances as it left them *)
LogEntry(tx, st, done) ==
    LET after == IF done THEN ApplyTx(st, tx) ELSE st IN
    [sender |-> Sender(tx), stateNonce |-> GetNonce(st, Sender(tx)),
     txNonce |-> tx.AccountNonce, type |-> tx.Type, done |-> done,
     to |-> tx.To, amount |-> tx.Amount, fee |-> getTxFee(tx),
     balance |-> GetBalance(st, Sender(tx)), toBalance |-> GetBalance(st, tx.To),
     senderAfter |-> GetBalance(after, Sender(tx)),
     toAfter |-> GetBalance(after, tx.To)]

RECURSIVE processTxsFrom(_, _, _, _, _)
processTxsFrom(st, txs, i, totalFee, log) ==
    IF i > Len(txs)
    THEN [err |-> "nil", st |-> st, totalFee |-> totalFee, log |-> log]
    ELSE LET tx == txs[i] IN
         IF ~NonceOK(st, tx)
         THEN [err |-> "Invalid tx nonce", st |-> st, totalFee |-> 0,
               log |-> Append(log, LogEntry(tx, st, FALSE))]
         ELSE IF tx.Type = "SendTx" /\ ~FundsOK(st, tx)
         THEN [err |-> "Not enough funds", st |-> st, totalFee |-> 0,
               log |-> Append(log, LogEntry(tx, st, FALSE))]
         ELSE processTxsFrom(ApplyTx(st, tx), txs, i + 1,
                             totalFee + (IF tx.Type = "SendTx" THEN getTxFee(tx) ELSE 0),
                             Append(log, LogEntry(tx, st, TRUE)))

processTxs(st, block) == processTxsFrom(st, block.Body.Transactions, 1, 0, <<>>)

CreditCoinbase(st, coinbase, feeReward) ==
    SetBalance(SetBalance(st, coinbase, BlockReward), coinbase, feeReward)

RootCheckFails_Never(proposing, actualRoot, block) == FALSE

RootCheckFails(proposing, actualRoot, block) ==
    ~proposing /\ actualRoot # block.Header.Root

applyAndValidateBlockState(st, block, proposing) ==
    LET Rewarded(r, s3) ==
            IF RootCheckFails(proposing, Root(s3), block)
            THEN [err |-> "Wrong state root", st |-> s3, log |-> r.log]
            ELSE [err |-> "nil", st |-> s3, log |-> r.log]
        Processed(r) ==
            IF r.err # "nil" THEN [err |-> r.err, st |-> r.st, log |-> r.log]
            ELSE Rewarded(r, Precommit(CreditCoinbase(r.st, block.Header.Coinbase,
                                                      r.totalFee \div 2)))
    IN  Processed(processTxs(st, block))

OnApplyError_NoReset(st) == st

OnApplyError(st) == Reset(st)

(* A step of a call: the function or collaborator reached and, for a
   per-transaction step, the index of the transaction *)
Step(name) == <<name, 0>>
StepAt(name, i) == <<name, i>>

(* applied: the handle was committed, and txpool.ResetTo and
   ValidatorsCache.RefreshIfUpdated were called; trace: the calls made on the
   handle and the collaborators, in order *)
applyBlock(st, block, proposing) ==
    LET ran == IF IsEmpty(block) THEN <<>> ELSE <<Step("applyAndValidateBlockState")>>
        Applied(r) ==
            IF r.err # "nil"
            THEN [err |-> r.err, st |-> OnApplyError(r.st), applied |-> FALSE,
                  log |-> r.log, trace |-> ran \o <<Step("Reset")>>]
            ELSE IF ~proposing
            THEN [err |-> "nil", st |-> Commit(r.st), applied |-> TRUE, log |-> r.log,
                  trace |-> ran \o <<Step("Commit"), Step("ResetTo"),
                                      Step("RefreshIfUpdated")>>]
            ELSE [err |-> "nil", st |-> r.st, applied |-> FALSE, log |-> r.log,
                  trace |-> ran]
    IN  Applied(IF IsEmpty(block) THEN [err |-> "nil", st |-> st, log |-> <<>>]
                ELSE applyAndValidateBlockState(st, block, proposing))

----------------------------------------------------------------------------
(* Seed and sortition messages *)

GetSeedData(proposalBlock) ==
    <<Seed(chainHead), U64(Height(proposalBlock)), Hash(proposalBlock)>>

getProposerData ==
    <<Seed(chainHead), U8(ProposerRole), U64(Height(chainHead) + 1)>>

(* The bytes of a message: a uint8 is 1 byte and a uint64 8 bytes, most
   significant first, a hash or seed is 32 bytes; append concatenates *)
Width(chunk) == IF chunk[1] = "u8" THEN 1 ELSE IF chunk[1] = "u64" THEN 8 ELSE 32

RECURSIVE ShiftBytes(_, _)
ShiftBytes(n, k) == IF k = 0 THEN n ELSE ShiftBytes(n \div 256, k - 1)

ByteAt(chunk, j) ==
    IF chunk[1] \in {"u8", "u64"}
    THEN <<"b", ShiftBytes(chunk[2][1], Width(chunk) - j) % 256, 0>>
    ELSE <<"h", chunk, j>>

RECURSIVE BytesFrom(_, _)
BytesFrom(msg, i) ==
    IF i > Len(msg) THEN <<>>
    ELSE [j \in 1..Width(msg[i]) |-> ByteAt(msg[i], j)] \o BytesFrom(msg, i + 1)

Bytes(msg) == BytesFrom(msg, 1)

(* getSortition: reaches says whether the output, as a fraction of MaxHash,
   reaches the configured ProposerTheshold *)
getSortition_OtherMessage(data, reaches) ==
    IF reaches
    THEN [ok |-> TRUE, hash |-> Evaluate(OwnKey, <<data>>).hash,
          proof |-> Evaluate(OwnKey, <<data>>).proof]
    ELSE [ok |-> FALSE, hash |-> ZeroHash, proof |-> NilProof]

getSortition(data, reaches) ==
    IF reaches
    THEN [ok |-> TRUE, hash |-> Evaluate(OwnKey, data).hash,
          proof |-> Evaluate(OwnKey, data).proof]
    ELSE [ok |-> FALSE, hash |-> ZeroHash, proof |-> NilProof]

GetProposerSortition(reaches) == getSortition(getProposerData, reaches)

----------------------------------------------------------------------------
(* Validation *)

validateBlockParentHash_NoHeight(block) ==
    IF Hash(chainHead) # block.Header.ParentHash THEN "ParentHash is invalid" ELSE "nil"

validateBlockParentHash_NoParent(block) ==
    IF Height(chainHead) # Height(block) - 1 THEN "Height is invalid" ELSE "nil"

validateBlockParentHash(block) ==
    IF Height(chainHead) # Height(block) - 1 THEN "Height is invalid"
    ELSE IF Hash(chainHead) # block.Header.ParentHash THEN "ParentHash is invalid"
    ELSE "nil"

(* validation.ValidateTx is a collaborator: bad is the set of the indices of
   the transactions it rejects. The loop of ValidateProposedBlock asks it
   about one transaction after the other and returns at the first rejection. *)
RECURSIVE ValidateTxsFrom(_, _, _, _)
ValidateTxsFrom(txs, bad, i, steps) ==
    IF i > Len(txs) THEN [err |-> "nil", steps |-> steps]
    ELSE IF i \in bad
    THEN [err |-> "ValidateTx failed", steps |-> Append(steps, StepAt("ValidateTx", i))]
    ELSE ValidateTxsFrom(txs, bad, i + 1, Append(steps, StepAt("ValidateTx", i)))

ValidateProposedBlockRun_TxHashFirst(block, bad) ==
    LET linkage == validateBlockParentHash(block)
        pub == UnmarshalPubkey(block.Header.ProposerPubKey)
        vrf == ProofToHash(pub.key, GetSeedData(block), block.Body.SeedProof)
        s1 == <<Step("validateBlockParentHash")>>
        s2 == Append(s1, Step("DeriveSha"))
        s3 == Append(s2, Step("UnmarshalPubkey"))
        s4 == Append(s3, Step("ProofToHash"))
        s5 == Append(s4, Step("Seed"))
    IN  IF linkage # "nil" THEN [err |-> linkage, steps |-> s1]
        ELSE IF DeriveSha(block.Body.Transactions) # block.Header.TxHash
            THEN [err |-> "TxHash is invalid", steps |-> s2]
        ELSE IF pub.err # "nil" THEN [err |-> pub.err, steps |-> s3]
        ELSE IF vrf.err # "nil" THEN [err |-> vrf.err, steps |-> s4]
        ELSE IF vrf.hash # Seed(block) THEN [err |-> "Seed is invalid", steps |-> s5]
        ELSE ValidateTxsFrom(block.Body.Transactions, bad, 1, s5)

(* ValidateProposedBlock: the error it returns and the checks it ran, in
   order. An empty block has no ProposedHeader, and reading its
   ProposerPubKey is a nil dereference. *)
ValidateProposedBlockRun(block, bad) ==
    LET linkage == validateBlockParentHash(block)
        pub == UnmarshalPubkey(block.Header.ProposerPubKey)
        vrf == ProofToHash(pub.key, GetSeedData(block), block.Body.SeedProof)
        s1 == <<Step("validateBlockParentHash")>>
        s2 == Append(s1, Step("UnmarshalPubkey"))
        s3 == Append(s2, Step("ProofToHash"))
        s4 == Append(s3, Step("Seed"))
        s5 == Append(s4, Step("DeriveSha"))
    IN  IF linkage # "nil" THEN [err |-> linkage, steps |-> s1]
        ELSE IF IsEmpty(block) THEN [err |-> "panic: nil ProposedHeader", steps |-> s2]
        ELSE IF pub.err # "nil" THEN [err |-> pub.err, steps |-> s2]
        ELSE IF vrf.err # "nil" THEN [err |-> vrf.err, steps |-> s3]
        ELSE IF vrf.hash # Seed(block) THEN [err |-> "Seed is invalid", steps |-> s4]
        ELSE IF DeriveSha(block.Body.Transactions) # block.Header.TxHash
            THEN [err |-> "TxHash is invalid", steps |-> s5]
        ELSE ValidateTxsFrom(block.Body.Transactions, bad, 1, s5)

ValidateProposedBlock(block, bad) == ValidateProposedBlockRun(block, bad).err

ValidationErrors ==
    {"Height is invalid", "ParentHash is invalid", "InvalidPubkey", "InvalidVRF",
     "Seed is invalid", "TxHash is invalid", "ValidateTx failed"}

ProofVerdict(h, hash, err) == IF h # hash THEN "Hashes are not equal" ELSE "nil"

ValidateProposerProof(proof, hash, pubKeyData) ==
    LET pub == UnmarshalPubkey(pubKeyData)
        vrf == ProofToHash(pub.key, getProposerData, proof)
    IN  IF pub.err # "nil" THEN pub.err
        ELSE ProofVerdict(vrf.hash, hash, vrf.err)

----------------------------------------------------------------------------
(* Block construction and insertion *)

GenerateEmptyBlock_StaleRoot(st) ==
    LET header == EmptyBlockHeader(Hash(chainHead), Height(chainHead) + 1,
                                   Root([tree |-> EmptyAccounts]))
        shell == MkBlock(header, <<>>, ZeroHash, NilProof)
    IN  MkBlock(header, <<>>, Keccak256Hash(GetSeedData(shell)), NilProof)

GenerateEmptyBlock(st) ==
    LET header == EmptyBlockHeader(Hash(chainHead), Height(chainHead) + 1, Root(st))
        shell == MkBlock(header, <<>>, ZeroHash, NilProof)
    IN  MkBlock(header, <<>>, Keccak256Hash(GetSeedData(shell)), NilProof)

insertBlock_NoCanonical(r, block) ==
    [blocks |-> {b \in r.blocks : Hash(b) # Hash(block)} \cup {block},
     head |-> block.Header,
     canon |-> r.canon]

insertBlock(r, block) ==
    [blocks |-> {b \in r.blocks : Hash(b) # Hash(block)} \cup {block},
     head |-> block.Header,
     canon |-> [h \in DOMAIN r.canon \cup {Height(block)} |->
                   IF h = Height(block) THEN Hash(block) ELSE r.canon[h]]]

(* The repository facade: what was written is what is read; a missing head
   reads as nil (the header of NoBlock), a missing block as nil (NoBlock) and
   a missing canonical hash as the zero hash *)
HeaderHash(header) == <<"H", <<header>>>>
ReadHead(r) == r.head
ReadBlock(r, hash) ==
    IF \E b \in r.blocks : Hash(b) = hash
    THEN CHOOSE b \in r.blocks : Hash(b) = hash
    ELSE NoBlock
ReadCanonicalHash(r, h) == IF h \in DOMAIN r.canon THEN r.canon[h] ELSE ZeroHash

GetHead_Nil == NoBlock

GetHead ==
    IF ReadHead(repo) = NoBlock.Header THEN NoBlock
    ELSE ReadBlock(repo, HeaderHash(ReadHead(repo)))

GetBlockByHeight(height) ==
    IF ReadCanonicalHash(repo, height) = ZeroHash THEN NoBlock
    ELSE ReadBlock(repo, ReadCanonicalHash(repo, height))

GenesisBlock(network, root) ==
    MkBlock(ProposedHeader(ZeroHash, 1, 0, BadPubBytes, ZeroHash, ZeroAddr, root),
            <<>>, Keccak256Hash(<<"010203040506", U8(network)>>), NilProof)

(* ProposeBlock, as run by a node holding key k on the transactions its
   mempool returned. handle names the state handle applyBlock is given, and
   canon is the canonical handle as the call leaves it. *)
ProposeHandle_Canonical == "canon"
ProposeHandle == "check"
ProposeMode == TRUE
SeedBlockOf_Unrooted(block, rooted) == block
SeedBlockOf(block, rooted) == rooted

BuildBlock(k, coinbase, time, txs) ==
    LET header == ProposedHeader(Hash(chainHead), Height(chainHead) + 1, time,
                                 FromECDSAPub(k), DeriveSha(txs), coinbase, ZeroHash)
        block == MkBlock(header, txs, ZeroHash, NilProof)
        checkState == IF ProposeHandle = "check" THEN NewForCheck(state) ELSE state
        Sealed(r, rooted, vrf) ==
            [err |-> r.err, applied |-> r.applied, log |-> r.log, steps |-> r.trace,
             given |-> block, before |-> checkState, after |-> r.st,
             canon |-> IF ProposeHandle = "check" THEN state ELSE r.st,
             block |-> IF r.err # "nil" THEN NoBlock
                       ELSE [rooted EXCEPT !.Body.BlockSeed = vrf.hash,
                                           !.Body.SeedProof = vrf.proof]]
        Rooted(r, rooted) ==
            Sealed(r, rooted, Evaluate(k, GetSeedData(SeedBlockOf(block, rooted))))
        Applied(r) == Rooted(r, [block EXCEPT !.Header.Root = Root(r.st)])
    IN  Applied(applyBlock(checkState, block, ProposeMode))

----------------------------------------------------------------------------
(* AddBlock, as one call: what it returns and what it leaves behind *)

Unchanged(err, steps) ==
    [err |-> err, head |-> chainHead, repo |-> repo, state |-> state,
     applied |-> FALSE, log |-> <<>>, steps |-> steps]

Inserted(r, block, steps) ==
    [err |-> "nil", head |-> block, repo |-> insertBlock(repo, block), state |-> r.st,
     applied |-> r.applied, log |-> r.log,
     steps |-> steps \o r.trace \o <<Step("insertBlock")>>]

Rejected(r, steps) ==
    [err |-> r.err, head |-> chainHead, repo |-> repo, state |-> r.st,
     applied |-> r.applied, log |-> r.log, steps |-> steps \o r.trace]

AddBlockOutcome(block, bad) ==
    LET linkage == validateBlockParentHash(block)
        r == applyBlock(state, block, FALSE)
        s1 == <<Step("validateBlockParentHash")>>
    IN  IF linkage # "nil" THEN Unchanged(linkage, s1)
        ELSE IF IsEmpty(block)
        THEN IF r.err # "nil" THEN Rejected(r, s1)
             ELSE Inserted(r, GenerateEmptyBlock(r.st), s1)
        ELSE LET v == ValidateProposedBlockRun(block, bad) IN
             IF v.err # "nil" THEN Unchanged(v.err, s1 \o v.steps)
             ELSE IF r.err # "nil" THEN Rejected(r, s1 \o v.steps)
             ELSE Inserted(r, block, s1 \o v.steps)

----------------------------------------------------------------------------
(* Inputs *)

Times == {1}

(* What the caller allocated before InitializeChain *)
GenesisAlloc ==
    [EmptyAccounts EXCEPT !.balance = [a \in Addr |->
        IF a \in {"a1", "cb"} THEN 1 ELSE 0]]

(* Transactions signed by a1: an Approving at every nonce and, at nonce 1, a
   Send of its whole genesis balance to cb and to itself, a Send of one more
   than that, and an Invite *)
SignedTxs ==
    {MkTx("a1", n, "ApprovingTx", ZeroAddr, 0) : n \in 1..MaxNonce}
    \cup {MkTx("a1", 1, "SendTx", "cb", GenesisAlloc.balance["a1"]),
          MkTx("a1", 1, "SendTx", "a1", GenesisAlloc.balance["a1"]),
          MkTx("a1", 1, "SendTx", "cb", GenesisAlloc.balance["a1"] + 1),
          MkTx("a1", 1, "SendInviteTx", ZeroAddr, 0)}

(* a transaction whose signature does not recover *)
BadSigTxs == {MkTx("bad", 1, "ApprovingTx", ZeroAddr, 0)}

(* The transaction lists offered: every list of up to MaxTxs signed
   transactions, and each unsigned one alone or after one signed transaction *)
TxSeqs ==
    UNION {[1..n -> SignedTxs] : n \in 0..MaxTxs}
    \cup {<<b>> : b \in BadSigTxs}
    \cup {<<t, b>> : t \in SignedTxs, b \in BadSigTxs}

Flags == [height : BOOLEAN, parent : BOOLEAN, pub : BOOLEAN, proof : BOOLEAN,
          seed : BOOLEAN, txhash : BOOLEAN]
NoFlags == [height |-> FALSE, parent |-> FALSE, pub |-> FALSE, proof |-> FALSE,
            seed |-> FALSE, txhash |-> FALSE]

(* A proposed block for the next height, sealed by key k, with the given
   claimed root and with the fields named by f wrong: the height, the parent
   hash, the public key bytes, the seed proof (made with another key), the
   seed (another key's output) and the transaction hash *)
Forged(k, time, txs, root, f) ==
    LET header ==
            ProposedHeader(IF f.parent THEN ZeroHash ELSE Hash(chainHead),
                           Height(chainHead) + (IF f.height THEN 2 ELSE 1), time,
                           IF f.pub THEN BadPubBytes ELSE FromECDSAPub(k),
                           IF f.txhash THEN ZeroHash ELSE DeriveSha(txs),
                           AddrOfKey(k), root)
        block == MkBlock(header, txs, ZeroHash, NilProof)
        vrf == Evaluate(k, GetSeedData(block))
        forged == Evaluate("forger", GetSeedData(block))
    IN  MkBlock(header, txs, IF f.seed THEN forged.hash ELSE vrf.hash,
                IF f.proof THEN forged.proof ELSE vrf.proof)

HonestRoot(k, time, txs) ==
    LET RootOf(b) == IF b.err = "nil" THEN b.block.Header.Root ELSE Root(state)
    IN  RootOf(BuildBlock(k, AddrOfKey(k), time, txs))

TamperTxSeqs == {<<>>, <<MkTx("a1", 1, "ApprovingTx", ZeroAddr, 0)>>}

(* a list of two transactions, offered with every verdict of the transaction
   validator on each *)
JudgedTxSeqs ==
    {<<MkTx("a1", 1, "ApprovingTx", ZeroAddr, 0), MkTx("a1", 2, "ApprovingTx", ZeroAddr, 0)>>}

ForgedEmpty(root, f) ==
    LET header == EmptyBlockHeader(IF f.parent THEN ZeroHash ELSE Hash(chainHead),
                                   Height(chainHead) + (IF f.height THEN 2 ELSE 1), root)
        shell == MkBlock(header, <<>>, ZeroHash, NilProof)
    IN  MkBlock(header, <<>>, Keccak256Hash(GetSeedData(shell)), NilProof)

(* The blocks offered to AddBlock, each named by how it is built: every
   transaction list sealed by the node's own key with the root an honest
   proposer computes; the lists of at most one transaction with the parent's
   root; a few lists with any set of header fields wrong, accepted or not by
   the transaction validator; a two-transaction list with a right or wrong
   TxHash and any verdicts of the transaction validator; empty blocks with a
   right or wrong parent, height and root *)
CandidateSpec(kind, k, time, txs, honestRoot, f, bad) ==
    [kind |-> kind, k |-> k, time |-> time, txs |-> txs, honestRoot |-> honestRoot,
     f |-> f, bad |-> bad]

CandidateSpecs ==
    {CandidateSpec("proposed", OwnKey, t, txs, TRUE, NoFlags, {}) :
        t \in Times, txs \in TxSeqs}
    \cup {CandidateSpec("proposed", OwnKey, t, txs, FALSE, NoFlags, {}) :
            t \in Times, txs \in {s \in TxSeqs : Len(s) <= 1}}
    \cup {c \in {CandidateSpec("proposed", k, t, txs, TRUE, f, v) :
                     k \in Keys, t \in Times, txs \in TamperTxSeqs, f \in Flags,
                     v \in SUBSET (1..1)} : c.bad \subseteq DOMAIN c.txs}
    \cup {CandidateSpec("proposed", OwnKey, t, txs, TRUE, f, v) :
            t \in Times, txs \in JudgedTxSeqs,
            f \in {NoFlags, [NoFlags EXCEPT !.txhash = TRUE]},
            v \in SUBSET (1..2)}
    \cup {CandidateSpec("empty", OwnKey, 0, <<>>, hr, f, {}) :
            hr \in BOOLEAN,
            f \in {g \in Flags : ~g.pub /\ ~g.proof /\ ~g.seed /\ ~g.txhash}}

Candidate(c) ==
    IF c.kind = "empty"
    THEN ForgedEmpty(IF c.honestRoot THEN Root(state) ELSE ZeroHash, c.f)
    ELSE Forged(c.k, c.time, c.txs,
                IF c.honestRoot THEN HonestRoot(c.k, c.time, c.txs) ELSE Root(state),
                c.f)

ProofInputs ==
    [proof : {Evaluate(k, getProposerData).proof : k \in Keys} \cup {NilProof},
     hash : {Evaluate(k, getProposerData).hash : k \in Keys} \cup {ZeroHash},
     pub : {FromECDSAPub(k) : k \in Keys} \cup {BadPubBytes}]

----------------------------------------------------------------------------
(* The state machine *)

NoInput == [proof |-> NilProof, hash |-> ZeroHash, pub |-> BadPubBytes]
NoState == [objs |-> EmptyAccounts, tree |-> EmptyAccounts, saved |-> EmptyAccounts,
            version |-> 0]

(* last: the operation, the error it returned, the block it was given or, for
   ProposeBlock, the block it gave to applyBlock (arg), the verdicts of the
   transaction validator (bad), the proof input it was given (in), the block
   it returned (ret), the flag and the hash and proof GetProposerSortition
   returned (ok, out), the transactions processTxs reached (log), the steps
   the call ran (steps) and the state handle given to applyBlock as it was
   before and after the call *)
Result(op, err) ==
    [op |-> op, err |-> err, arg |-> NoBlock, bad |-> {}, in |-> NoInput,
     ret |-> NoBlock, ok |-> FALSE, out |-> [hash |-> ZeroHash, proof |-> NilProof],
     log |-> <<>>, steps |-> <<>>, before |-> NoState, after |-> NoState]

NoCall == Result("none", "nil")

(* Two goroutines may be inside AddBlock at once *)
Procs == {"p1", "p2"}
IdleCall == [pc |-> "idle", block |-> NoBlock, bad |-> {}, err |-> "nil",
             headAtCall |-> NoBlock]

Init ==
    /\ chainHead = NoBlock
    /\ repo = [blocks |-> {}, head |-> NoBlock.Header, canon |-> <<>>]
    /\ state = [objs |-> GenesisAlloc, tree |-> EmptyAccounts, saved |-> EmptyAccounts,
                version |-> 0]
    /\ txpool = [resets |-> 0, resetTo |-> ZeroHash]
    /\ vcache = [refreshes |-> 0]
    /\ last = NoCall
    /\ calls = [p \in Procs |-> IdleCall]

(* One call at a time: a call leaves its result in last, and the caller takes
   it (Return) before the next call *)
Initialized == chainHead # NoBlock
Ready == last = NoCall

(* applyBlock's calls on the collaborators when it applied the block *)
ResetTo_Unconditional(pool, applied, block) ==
    [resets |-> pool.resets + 1, resetTo |-> Hash(block)]

ResetTo(pool, applied, block) ==
    IF applied THEN [resets |-> pool.resets + 1, resetTo |-> Hash(block)] ELSE pool

RefreshIfUpdated(cache, applied) ==
    IF applied THEN [refreshes |-> cache.refreshes + 1] ELSE cache

GenerateGenesis(network) ==
    LET committed == Commit(state)
        block == GenesisBlock(network, Root(committed))
    IN  /\ state' = committed
        /\ repo' = insertBlock(repo, block)
        /\ chainHead' = block
        /\ UNCHANGED <<txpool, vcache, calls>>
        /\ last' = [Result("GenerateGenesis", "nil") EXCEPT !.ret = block]

InitializeChain ==
    /\ Ready
    /\ ~Initialized
    /\ IF GetHead # NoBlock
       THEN /\ chainHead' = GetHead
            /\ UNCHANGED <<repo, state, txpool, vcache, calls>>
            /\ last' = Result("InitializeChain", "nil")
       ELSE GenerateGenesis(Testnet)

(* The node stops and NewBlockchain is run again on the same database: the
   in-memory Head is gone, the repository and the committed state are what
   was written *)
Reload(st) ==
    [objs |-> st.saved, tree |-> st.saved, saved |-> st.saved, version |-> st.version]

Restart ==
    /\ Ready
    /\ Initialized
    /\ chainHead' = NoBlock
    /\ state' = Reload(state)
    /\ UNCHANGED <<repo, txpool, vcache, last, calls>>

AddBlock ==
    /\ Ready
    /\ Initialized
    /\ Height(chainHead) < MaxHeight
    /\ \E c \in CandidateSpecs :
        \E block \in {Candidate(c)} : \E r \in {AddBlockOutcome(block, c.bad)} :
        /\ chainHead' = r.head
        /\ repo' = r.repo
        /\ state' = r.state
        /\ txpool' = ResetTo(txpool, r.applied, block)
        /\ vcache' = RefreshIfUpdated(vcache, r.applied)
        /\ last' = [Result("AddBlock", r.err) EXCEPT
                        !.arg = block, !.bad = c.bad, !.log = r.log, !.steps = r.steps,
                        !.before = state, !.after = r.state]
        /\ UNCHANGED calls

ProposeBlock ==
    /\ Ready
    /\ Initialized
    /\ \E txs \in TxSeqs, time \in Times :
        \E r \in {BuildBlock(OwnKey, AddrOfKey(OwnKey), time, txs)} :
        /\ state' = r.canon
        /\ txpool' = ResetTo(txpool, r.applied, r.block)
        /\ vcache' = RefreshIfUpdated(vcache, r.applied)
        /\ UNCHANGED <<chainHead, repo, calls>>
        /\ last' = [Result("ProposeBlock", r.err) EXCEPT
                        !.arg = r.given, !.ret = r.block, !.log = r.log,
                        !.steps = r.steps, !.before = r.before, !.after = r.after]

GenerateEmptyBlockCall ==
    /\ Ready
    /\ Initialized
    /\ last' = [Result("GenerateEmptyBlock", "nil") EXCEPT !.ret = GenerateEmptyBlock(state)]
    /\ UNCHANGED <<chainHead, repo, state, txpool, vcache, calls>>

ValidateProposedBlockCall ==
    /\ Ready
    /\ Initialized
    /\ Height(chainHead) < MaxHeight
    /\ \E c \in CandidateSpecs :
        \E block \in {Candidate(c)} : \E v \in {ValidateProposedBlockRun(block, c.bad)} :
        /\ last' = [Result("ValidateProposedBlock", v.err) EXCEPT
                        !.arg = block, !.bad = c.bad, !.steps = v.steps]
        /\ UNCHANGED <<chainHead, repo, state, txpool, vcache, calls>>

GetProposerSortitionCall ==
    /\ Ready
    /\ Initialized
    /\ \E reaches \in BOOLEAN : \E r \in {GetProposerSortition(reaches)} :
        /\ last' = [Result("GetProposerSortition", "nil") EXCEPT
                        !.ok = r.ok, !.out = [hash |-> r.hash, proof |-> r.proof]]
        /\ UNCHANGED <<chainHead, repo, state, txpool, vcache, calls>>

ValidateProposerProofCall ==
    /\ Ready
    /\ Initialized
    /\ \E in \in ProofInputs :
        /\ last' = [Result("ValidateProposerProof",
                           ValidateProposerProof(in.proof, in.hash, in.pub))
                        EXCEPT !.in = in]
        /\ UNCHANGED <<chainHead, repo, state, txpool, vcache, calls>>

Return ==
    /\ ~Ready
    /\ last' = NoCall
    /\ UNCHANGED <<chainHead, repo, state, txpool, vcache, calls>>

Next ==
    \/ InitializeChain
    \/ AddBlock
    \/ ProposeBlock
    \/ GenerateEmptyBlockCall
    \/ ValidateProposedBlockCall
    \/ GetProposerSortitionCall
    \/ ValidateProposerProofCall
    \/ Return
    \/ Restart

Spec == Init /\ [][Next]_vars

----------------------------------------------------------------------------
(* AddBlock run by two goroutines: the code takes no lock, so the calls
   interleave between the lines of AddBlock. One step each for
   validateBlockParentHash, ValidateProposedBlock, applyBlock and insertBlock,
   every one reading Head and the state as they are when it runs. *)

ConcurrentSpecs ==
    {c \in CandidateSpecs :
        /\ c.k = OwnKey
        /\ c.txs \in TamperTxSeqs
        /\ c.bad = {}
        /\ c.honestRoot
        /\ c.f \in {NoFlags, [NoFlags EXCEPT !.parent = TRUE]}}

Goto(p, pc) == calls' = [calls EXCEPT ![p].pc = pc]
Done(p, err) == calls' = [calls EXCEPT ![p].pc = "done", ![p].err = err]

CallAddBlock(p) ==
    /\ Initialized
    /\ Height(chainHead) < MaxHeight
    /\ calls[p].pc = "idle"
    /\ \E c \in ConcurrentSpecs :
        calls' = [calls EXCEPT ![p] = [pc |-> "parent", block |-> Candidate(c),
                                       bad |-> c.bad, err |-> "nil",
                                       headAtCall |-> chainHead]]
    /\ UNCHANGED <<chainHead, repo, state, txpool, vcache, last>>

CheckParent(p) ==
    /\ calls[p].pc = "parent"
    /\ LET err == validateBlockParentHash(calls[p].block) IN
        IF err # "nil" THEN Done(p, err)
        ELSE Goto(p, IF IsEmpty(calls[p].block) THEN "apply" ELSE "validate")
    /\ UNCHANGED <<chainHead, repo, state, txpool, vcache, last>>

Validate(p) ==
    /\ calls[p].pc = "validate"
    /\ LET err == ValidateProposedBlock(calls[p].block, calls[p].bad) IN
        IF err # "nil" THEN Done(p, err) ELSE Goto(p, "apply")
    /\ UNCHANGED <<chainHead, repo, state, txpool, vcache, last>>

Apply(p) ==
    /\ calls[p].pc = "apply"
    /\ LET r == applyBlock(state, calls[p].block, FALSE) IN
        /\ state' = r.st
        /\ txpool' = ResetTo(txpool, r.applied, calls[p].block)
        /\ vcache' = RefreshIfUpdated(vcache, r.applied)
        /\ IF r.err # "nil" THEN Done(p, r.err) ELSE Goto(p, "insert")
    /\ UNCHANGED <<chainHead, repo, last>>

Insert(p) ==
    /\ calls[p].pc = "insert"
    /\ LET block == IF IsEmpty(calls[p].block) THEN GenerateEmptyBlock(state)
                     ELSE calls[p].block
       IN  /\ repo' = insertBlock(repo, block)
           /\ chainHead' = block
    /\ Done(p, "nil")
    /\ UNCHANGED <<state, txpool, vcache, last>>

ReturnFrom(p) ==
    /\ calls[p].pc = "done"
    /\ calls' = [calls EXCEPT ![p] = IdleCall]
    /\ UNCHANGED <<chainHead, repo, state, txpool, vcache, last>>

Startup ==
    /\ InitializeChain
    /\ last' # NoCall

NextConcurrent ==
    \/ Startup
    \/ \E p \in Procs :
        \/ CallAddBlock(p)
        \/ CheckParent(p)
        \/ Validate(p)
        \/ Apply(p)
        \/ Insert(p)
        \/ ReturnFrom(p)

SpecConcurrent == Init /\ [][NextConcurrent]_vars

----------------------------------------------------------------------------
(* Properties *)

ApplyErrors == {"Invalid tx nonce", "Not enough funds", "Wrong state root"}

TxCount(txs, a) == Cardinality({i \in DOMAIN txs : Sender(txs[i]) = a})

(* The root obtained by replaying the block's transactions, and for a
   proposed block the coinbase credit, on its parent state *)
Replay(st, block) ==
    IF IsEmpty(block) THEN [err |-> "nil", st |-> NewForCheck(st), log |-> <<>>]
    ELSE applyAndValidateBlockState(NewForCheck(st), block, TRUE)

RootMismatch(st, block) ==
    Replay(st, block).err = "nil" /\ Root(Replay(st, block).st) # block.Header.Root

NothingCommitted ==
    /\ chainHead' = chainHead
    /\ repo' = repo
    /\ state'.saved = state.saved
    /\ state'.version = state.version

(* C1: every block AddBlock applies raises each sender's nonce by exactly one
   per transaction of that sender in the block. *)
C1_NonceAdvancesByOnePerTx ==
    [][(last'.op = "AddBlock" /\ last'.err = "nil" /\ ~IsEmpty(last'.arg)) =>
          \A a \in Addr :
              state'.saved.nonce[a] =
                  state.saved.nonce[a] + TxCount(last'.arg.Body.Transactions, a)]_vars

(* C2, as stated: every block, proposed or empty, whose Root differs from the
   root of its own replay on the parent state is rejected by AddBlock, which
   then inserts nothing, leaves Head and commits no state. *)
C2_AnyRootMismatchRejected ==
    [][(last'.op = "AddBlock" /\ RootMismatch(state, last'.arg)) =>
          (last'.err # "nil" /\ NothingCommitted)]_vars

(* C2, amended: a proposed block whose Root differs from the root of its own
   replay on the parent state is rejected by AddBlock, which then does not
   insert it, leaves Head and commits no state; for an empty block AddBlock
   does not read the Root it is given and inserts a generated empty block
   whose Root is the state root. *)
C2_ProposedRootMismatchRejected ==
    [][(last'.op = "AddBlock") =>
          /\ (~IsEmpty(last'.arg) /\ RootMismatch(state, last'.arg)) =>
                (last'.err # "nil" /\ NothingCommitted /\ last'.arg \notin repo'.blocks)
          /\ (IsEmpty(last'.arg) /\ last'.err = "nil") =>
                (IsEmpty(chainHead') /\ chainHead'.Header.Root = Root(state'))]_vars

C2_Witness ==
    /\ last.op = "AddBlock"
    /\ ~IsEmpty(last.arg)
    /\ last.err = "Wrong state root"
    /\ Len(last.log) > 0

(* C3: after a proposed block is applied, its coinbase holds what it held
   after the block's transactions plus BlockReward plus half the fees. *)
C3_CoinbaseCredited ==
    [][(last'.op = "AddBlock" /\ last'.err = "nil" /\ ~IsEmpty(last'.arg)) =>
          LET r == processTxs(state, last'.arg)
              cb == last'.arg.Header.Coinbase
          IN  state'.saved.balance[cb] =
                  r.st.objs.balance[cb] + BlockReward + (r.totalFee \div 2)]_vars

(* C4: when applyBlock fails (nonce, funds or state root), the state handle
   it was given is left as it was before the call, nothing is committed, the
   mempool and the validator cache are not called, and Head stays. *)
C4_FailedApplyRollsBack ==
    [][(last'.op \in {"AddBlock", "ProposeBlock"} /\ last'.err \in ApplyErrors) =>
          /\ last'.after = last'.before
          /\ last'.op = "AddBlock" => state' = state
          /\ NothingCommitted
          /\ txpool' = txpool
          /\ vcache' = vcache]_vars

C4_Witness ==
    /\ last.op = "AddBlock"
    /\ last.err \in ApplyErrors
    /\ Len(last.log) = 2
    /\ last.log[1].done
    /\ ~last.log[2].done

(* C5: a transaction whose AccountNonce is not the sender's state nonce + 1,
   lower or higher, is rejected with the nonce error, is not applied, and no
   later transaction of the block is reached. *)
C5_BadNonceRejected ==
    last.op \in {"AddBlock", "ProposeBlock"} =>
        \A i \in DOMAIN last.log :
            last.log[i].txNonce # last.log[i].stateNonce + 1 =>
                /\ ~last.log[i].done
                /\ i = Len(last.log)
                /\ last.err = "Invalid tx nonce"
                /\ last.after = last.before

(* a second copy of a transaction applied earlier in the same block *)
C5_Witness ==
    /\ last.op = "AddBlock"
    /\ last.err = "Invalid tx nonce"
    /\ Len(last.log) = 2
    /\ last.log[1].done
    /\ last.arg.Body.Transactions[2] = last.arg.Body.Transactions[1]

(* C6: an AddBlock that returns nil moves Head to a block one higher whose
   parent is the old Head, and records it as persisted head and canonical
   hash; one that fails leaves Head, the persisted head and the canonical
   index; Head's height never decreases nor skips. *)
C6_HeadAdvancesOncePerBlock ==
    [][/\ (last'.op = "AddBlock" /\ last'.err = "nil") =>
              /\ Height(chainHead') = Height(chainHead) + 1
              /\ chainHead'.Header.ParentHash = Hash(chainHead)
              /\ repo'.head = chainHead'.Header
              /\ repo'.canon[Height(chainHead')] = Hash(chainHead')
       /\ (last'.op = "AddBlock" /\ last'.err # "nil") =>
              /\ chainHead' = chainHead
              /\ repo'.head = repo.head
              /\ repo'.canon = repo.canon
       /\ (Initialized /\ Initialized') =>
              Height(chainHead') \in {Height(chainHead), Height(chainHead) + 1}]_vars

C6_Witness ==
    /\ last.op = "AddBlock"
    /\ last.err = "nil"
    /\ Height(chainHead) = MaxHeight
    /\ IsEmpty(last.arg)

(* C8: a block ProposeBlock returned passes ValidateProposedBlock and
   AddBlock on the same node, with Head and state as ProposeBlock left them,
   when the transaction validator accepts its transactions. *)
C8_ProposedBlockAccepted ==
    (last.op = "ProposeBlock" /\ last.err = "nil") =>
        /\ ValidateProposedBlock(last.ret, {}) = "nil"
        /\ AddBlockOutcome(last.ret, {}).err = "nil"
        /\ AddBlockOutcome(last.ret, {}).head = last.ret

C8_Witness ==
    /\ last.op = "ProposeBlock"
    /\ last.err = "nil"
    /\ Len(last.ret.Body.Transactions) = 2

(* C9: ProposeBlock, succeeding or failing, leaves the canonical state, Head,
   the stored blocks and head, the mempool and the validator cache. *)
C9_ProposeBlockChangesNothing ==
    [][(last'.op = "ProposeBlock") =>
          /\ state' = state
          /\ chainHead' = chainHead
          /\ repo' = repo
          /\ txpool' = txpool
          /\ vcache' = vcache]_vars

C9_Witness ==
    /\ last.op = "ProposeBlock"
    /\ last.err \in ApplyErrors
    /\ Len(last.log) = 2
    /\ last.log[1].done

(* C10: ValidateProposerProof returns an error whenever the public key is
   malformed or the verifier rejects the proof, whatever hash is claimed, and
   nil only when the proof verifies and its output is the claimed hash. *)
C10_RejectedProofIsAnError ==
    (last.op = "ValidateProposerProof") =>
        LET pub == UnmarshalPubkey(last.in.pub)
            vrf == ProofToHash(pub.key, getProposerData, last.in.proof)
        IN  (last.err = "nil") <=>
                (pub.err = "nil" /\ vrf.err = "nil" /\ vrf.hash = last.in.hash)

InCriticalSection(p) == calls[p].pc \in {"parent", "validate", "apply", "insert"}

BothAccepted(p, q) ==
    /\ calls[p].pc = "done" /\ calls[p].err = "nil"
    /\ calls[q].pc = "done" /\ calls[q].err = "nil"
    /\ calls[p].headAtCall = calls[q].headAtCall
    /\ calls[p].block # calls[q].block

(* C7: two concurrent AddBlock calls are never both between
   validateBlockParentHash and insertBlock, and of two distinct blocks valid
   against the same Head at most one is accepted. *)
C7_AddBlockCallsExclusive ==
    \A p, q \in Procs :
        p # q => (~(InCriticalSection(p) /\ InCriticalSection(q)) /\ ~BothAccepted(p, q))

(* the second half of C7 alone *)
AtMostOneAccepted == \A p, q \in Procs : p # q => ~BothAccepted(p, q)

LinkageErrors == {"Height is invalid", "ParentHash is invalid"}

(* C11: a block for the next height whose parent hash is not Head's, and a
   block naming Head as parent whose height is not Head's + 1, proposed or
   empty, is refused by ValidateProposedBlock and by AddBlock with the
   parent-linkage error, with no other check run, no transaction processed,
   and the state, Head, the stored chain, the mempool and the validator cache
   left as they were. *)
C11_WrongParentRejected ==
    [][(last'.op \in {"AddBlock", "ValidateProposedBlock"}) =>
          LET b == last'.arg
              heightOK == Height(b) = Height(chainHead) + 1
              parentOK == b.Header.ParentHash = Hash(chainHead)
          IN  /\ (heightOK /\ ~parentOK) => last'.err = "ParentHash is invalid"
              /\ (parentOK /\ ~heightOK) => last'.err = "Height is invalid"
              /\ (~heightOK \/ ~parentOK) =>
                    /\ last'.err \in LinkageErrors
                    /\ last'.steps = <<Step("validateBlockParentHash")>>
                    /\ last'.log = <<>>
                    /\ state' = state
                    /\ chainHead' = chainHead
                    /\ repo' = repo
                    /\ txpool' = txpool
                    /\ vcache' = vcache]_vars

(* an empty block for the next height that names another parent, given to
   AddBlock *)
C11_Witness ==
    /\ last.op = "AddBlock"
    /\ IsEmpty(last.arg)
    /\ Height(last.arg) = Height(chainHead) + 1
    /\ last.arg.Header.ParentHash # Hash(chainHead)
    /\ last.err = "ParentHash is invalid"

SendsReached ==
    {i \in DOMAIN last.log :
        last.log[i].type = "SendTx" /\ last.log[i].txNonce = last.log[i].stateNonce + 1}

NoNegativeBalance ==
    /\ \A a \in Addr :
          /\ state.objs.balance[a] >= 0
          /\ state.saved.balance[a] >= 0
          /\ last.after.objs.balance[a] >= 0
    /\ \A i \in DOMAIN last.log :
          last.log[i].senderAfter >= 0 /\ last.log[i].toAfter >= 0

(* C12, as stated: a Send with a valid nonce is applied exactly when the
   sender's balance is at least amount + fee; applied with amount + fee equal
   to the balance it leaves the sender exactly 0 and the recipient exactly
   amount more; with amount + fee one more than the balance it fails with the
   funds error and the handle is left as before the call; no balance is ever
   negative. *)
C12_SendFundsBoundary ==
    /\ NoNegativeBalance
    /\ last.op \in {"AddBlock", "ProposeBlock"} =>
          \A i \in SendsReached :
              LET e == last.log[i] IN
              /\ e.done <=> (e.balance >= e.amount + e.fee)
              /\ (e.done /\ e.amount + e.fee = e.balance) =>
                    (e.senderAfter = 0 /\ e.toAfter = e.toBalance + e.amount)
              /\ (e.amount + e.fee = e.balance + 1) =>
                    /\ ~e.done
                    /\ last.err = "Not enough funds"
                    /\ last.after = last.before

(* C12, amended: the same, where the recipient is another account than the
   sender: the sender is debited amount + fee and the recipient credited
   amount; a Send to the sender's own address leaves its balance at what it
   was less the fee. *)
C12_SendFundsBoundaryOtherRecipient ==
    /\ NoNegativeBalance
    /\ last.op \in {"AddBlock", "ProposeBlock"} =>
          \A i \in SendsReached :
              LET e == last.log[i] IN
              /\ e.done <=> (e.balance >= e.amount + e.fee)
              /\ (e.done /\ e.to # e.sender) =>
                    /\ e.senderAfter = e.balance - e.amount - e.fee
                    /\ e.toAfter = e.toBalance + e.amount
              /\ (e.done /\ e.to # e.sender /\ e.amount + e.fee = e.balance) =>
                    e.senderAfter = 0
              /\ (e.done /\ e.to = e.sender) => e.senderAfter = e.balance - e.fee
              /\ (e.amount + e.fee = e.balance + 1) =>
                    /\ ~e.done
                    /\ last.err = "Not enough funds"
                    /\ last.after = last.before

(* a Send of the sender's whole balance to another account, applied by
   AddBlock *)
C12_Witness ==
    /\ last.op = "AddBlock"
    /\ last.err = "nil"
    /\ \E i \in SendsReached :
          /\ last.log[i].done
          /\ last.log[i].to # last.log[i].sender
          /\ last.log[i].amount > 0
          /\ last.log[i].amount + last.log[i].fee = last.log[i].balance

Count(steps, name) == Cardinality({i \in DOMAIN steps : steps[i] = Step(name)})

CommitThenResetThenRefresh(steps) ==
    \E i, j, k \in DOMAIN steps :
        /\ i < j /\ j < k
        /\ steps[i] = Step("Commit")
        /\ steps[j] = Step("ResetTo")
        /\ steps[k] = Step("RefreshIfUpdated")

(* C13: a call of AddBlock that returns nil calls txpool.ResetTo and
   ValidatorsCache.RefreshIfUpdated once each, after the Commit of the block;
   a call of AddBlock that fails, and every call of ProposeBlock,
   GenerateEmptyBlock, ValidateProposedBlock and ValidateProposerProof, calls
   neither; the number of ResetTo calls made is the number of blocks above
   genesis. *)
C13_ResetAndRefreshOncePerAppliedBlock ==
    [][(last = NoCall /\ last' # NoCall) =>
          LET n == IF last'.op = "AddBlock" /\ last'.err = "nil" THEN 1 ELSE 0 IN
          /\ Count(last'.steps, "ResetTo") = n
          /\ Count(last'.steps, "RefreshIfUpdated") = n
          /\ txpool'.resets = txpool.resets + n
          /\ vcache'.refreshes = vcache.refreshes + n
          /\ n = 1 => /\ CommitThenResetThenRefresh(last'.steps)
                      /\ state'.version = state.version + 1
          /\ Initialized' => txpool'.resets = Height(chainHead') - 1]_vars

(* the second block above genesis applied, a proposed one *)
C13_Witness ==
    /\ last.op = "AddBlock"
    /\ last.err = "nil"
    /\ ~IsEmpty(last.arg)
    /\ txpool.resets = 2
    /\ vcache.refreshes = 2

(* C14: GenerateEmptyBlock, with Head at height H, returns an empty block of
   height H + 1 whose parent is Head, with no transactions and Head's Root,
   and changes neither the account state nor Head nor the stored chain. *)
C14_EmptyBlockOnHead ==
    [][(last'.op = "GenerateEmptyBlock") =>
          /\ IsEmpty(last'.ret)
          /\ Height(last'.ret) = Height(chainHead) + 1
          /\ last'.ret.Header.ParentHash = Hash(chainHead)
          /\ last'.ret.Body.Transactions = <<>>
          /\ last'.ret.Header.Root = chainHead.Header.Root
          /\ state' = state
          /\ chainHead' = chainHead
          /\ repo' = repo]_vars

(* on a Head above genesis that carried transactions *)
C14_Witness ==
    /\ last.op = "GenerateEmptyBlock"
    /\ Height(chainHead) >= 2
    /\ Len(chainHead.Body.Transactions) > 0
    /\ Height(last.ret) = Height(chainHead) + 1

(* C15: GenerateGenesis commits the state and makes a block of height 1 with
   the zero parent hash, a non-zero seed and the root just committed, stores
   it and makes it Head; InitializeChain generates genesis exactly when no
   head is persisted, and otherwise makes the persisted head block Head and
   writes neither a block nor state. *)
C15_GenesisOrRestore ==
    [][/\ (last'.op = "GenerateGenesis") =>
              /\ ReadHead(repo) = NoBlock.Header
              /\ Height(last'.ret) = 1
              /\ last'.ret.Header.ParentHash = ZeroHash
              /\ Seed(last'.ret) # ZeroHash
              /\ state'.saved = state.objs
              /\ state'.version = state.version + 1
              /\ last'.ret.Header.Root = Root(state')
              /\ chainHead' = last'.ret
              /\ GetHead' = last'.ret
       /\ (last'.op = "InitializeChain") =>
              /\ ReadHead(repo) # NoBlock.Header
              /\ Hash(chainHead') = HeaderHash(ReadHead(repo))
              /\ chainHead' \in repo.blocks
              /\ repo' = repo
              /\ state' = state
       /\ (~Initialized /\ Initialized') =>
              last'.op \in {"GenerateGenesis", "InitializeChain"}]_vars

(* a head two blocks above genesis, restored *)
C15_Witness ==
    /\ last.op = "InitializeChain"
    /\ Height(chainHead) = MaxHeight
    /\ repo.head = chainHead.Header

(* The checks of a proposed block in the order of 4.5, each decided on its
   own from the block, Head and the verdicts of the transaction validator:
   the position of the first that fails, 0 when none does *)
CheckOrder(block) ==
    <<Step("validateBlockParentHash"), Step("UnmarshalPubkey"), Step("ProofToHash"),
      Step("Seed"), Step("DeriveSha")>>
    \o [i \in 1..Len(block.Body.Transactions) |-> StepAt("ValidateTx", i)]

Min(S) == CHOOSE x \in S : \A y \in S : x <= y

FirstFailing(block, bad) ==
    LET pub == UnmarshalPubkey(block.Header.ProposerPubKey)
        vrf == ProofToHash(pub.key, GetSeedData(block), block.Body.SeedProof)
    IN  IF Height(block) # Height(chainHead) + 1 THEN 1
        ELSE IF block.Header.ParentHash # Hash(chainHead) THEN 1
        ELSE IF pub.err # "nil" THEN 2
        ELSE IF vrf.err # "nil" THEN 3
        ELSE IF vrf.hash # Seed(block) THEN 4
        ELSE IF DeriveSha(block.Body.Transactions) # block.Header.TxHash THEN 5
        ELSE IF bad # {} THEN 5 + Min(bad)
        ELSE 0

ErrorOfCheck(block, at) ==
    IF at = 0 THEN "nil"
    ELSE IF at = 1
    THEN (IF Height(block) # Height(chainHead) + 1 THEN "Height is invalid"
          ELSE "ParentHash is invalid")
    ELSE IF at = 2 THEN "InvalidPubkey"
    ELSE IF at = 3 THEN "InvalidVRF"
    ELSE IF at = 4 THEN "Seed is invalid"
    ELSE IF at = 5 THEN "TxHash is invalid"
    ELSE "ValidateTx failed"

ChecksRun(block, at) ==
    IF at = 0 THEN CheckOrder(block) ELSE SubSeq(CheckOrder(block), 1, at)

ApplySteps == {Step("applyAndValidateBlockState"), Step("Reset"), Step("Commit"),
               Step("ResetTo"), Step("RefreshIfUpdated"), Step("insertBlock")}

(* C16: on a proposed block ValidateProposedBlock runs parent linkage (height,
   then parent hash), public key, seed proof, seed equality, transaction
   hash, then ValidateTx on the transactions in list order, stops at the
   first check that fails and returns its error; AddBlock runs applyBlock
   only after ValidateProposedBlock returned nil, and otherwise returns that
   error with the state untouched. *)
C16_ValidationOrder ==
    [][(last'.op \in {"AddBlock", "ValidateProposedBlock"} /\ ~IsEmpty(last'.arg)) =>
          LET b == last'.arg
              at == FirstFailing(b, last'.bad)
              ran == ChecksRun(b, at)
          IN  /\ last'.op = "ValidateProposedBlock" =>
                    /\ last'.steps = ran
                    /\ last'.err = ErrorOfCheck(b, at)
              /\ (last'.op = "AddBlock" /\ at = 1) =>
                    /\ last'.steps = ran
                    /\ last'.err = ErrorOfCheck(b, at)
              /\ (last'.op = "AddBlock" /\ at > 1) =>
                    /\ last'.steps = <<Step("validateBlockParentHash")>> \o ran
                    /\ last'.err = ErrorOfCheck(b, at)
                    /\ state' = state
              /\ (last'.op = "AddBlock" /\ at = 0) =>
                    /\ SubSeq(last'.steps, 1, Len(ran) + 1) =
                          <<Step("validateBlockParentHash")>> \o ran
                    /\ Len(last'.steps) > Len(ran) + 1
                    /\ \A i \in (Len(ran) + 2)..Len(last'.steps) :
                          last'.steps[i] \in ApplySteps
                    /\ last'.err \notin ValidationErrors
              /\ at # 0 => \A i \in DOMAIN last'.steps : last'.steps[i] \notin ApplySteps]_vars

(* a block with a forged seed, a wrong transaction hash and a transaction the
   validator rejects, refused for its seed *)
C16_Witness ==
    /\ last.op = "AddBlock"
    /\ last.err = "Seed is invalid"
    /\ DeriveSha(last.arg.Body.Transactions) # last.arg.Header.TxHash
    /\ last.bad # {}

(* two transactions, the first accepted and the second rejected by the
   validator *)
C16_SecondTxRejected ==
    /\ last.op = "ValidateProposedBlock"
    /\ last.err = "ValidateTx failed"
    /\ last.bad = {2}
    /\ last.steps[Len(last.steps)] = StepAt("ValidateTx", 2)

Recoverable(tx) == tx.signer # "bad"

RanApplyBlock == \E i \in DOMAIN last.steps : last.steps[i] = Step("applyAndValidateBlockState")

(* C17: applyBlock, run by AddBlock or by ProposeBlock on a block holding a
   transaction whose sender cannot be recovered from its signature, fails and
   leaves the state handle as it was; such a transaction changes no account,
   the zero address included. *)
C17_UnrecoverableSenderRejected ==
    (last.op \in {"AddBlock", "ProposeBlock"} /\ RanApplyBlock) =>
        LET txs == last.arg.Body.Transactions IN
        /\ (\E i \in DOMAIN txs : ~Recoverable(txs[i])) =>
              (last.err # "nil" /\ last.after = last.before)
        /\ \A i \in DOMAIN last.log : ~Recoverable(txs[i]) => ~last.log[i].done

(* an accepted block whose unsigned transaction approved the identity of the
   zero address and raised its nonce *)
C17_ZeroAddressMutated ==
    /\ last.op = "AddBlock"
    /\ last.err = "nil"
    /\ \E i \in DOMAIN last.arg.Body.Transactions :
          ~Recoverable(last.arg.Body.Transactions[i])
    /\ state.saved.approved[ZeroAddr]
    /\ state.saved.nonce[ZeroAddr] > 0

(* the block a call was about, while Head is still the Head it was read on *)
BlockInHand ==
    IF last.op = "GenerateEmptyBlock" THEN last.ret
    ELSE IF last.op = "ProposeBlock" /\ last.err = "nil" THEN last.ret
    ELSE IF last.op \in {"ProposeBlock", "ValidateProposedBlock"} THEN last.arg
    ELSE NoBlock

(* C18: the hash and proof GetProposerSortition returns with true pass
   ValidateProposerProof under the node's own public key while Head is the
   same; and the bytes of the proposer message differ from the bytes of the
   block-seed message of any block built or offered on that Head. *)
C18_SortitionProofVerifies ==
    /\ (last.op = "GetProposerSortition" /\ last.ok) =>
          ValidateProposerProof(last.out.proof, last.out.hash, FromECDSAPub(OwnKey)) = "nil"
    /\ BlockInHand # NoBlock =>
          /\ Len(Bytes(getProposerData)) = 41
          /\ Len(Bytes(GetSeedData(BlockInHand))) = 72
          /\ Bytes(getProposerData) # Bytes(GetSeedData(BlockInHand))

(* a sortition won on a Head above genesis *)
C18_Witness ==
    /\ last.op = "GetProposerSortition"
    /\ last.ok
    /\ Height(chainHead) >= 2
    /\ last.out.hash = Evaluate(OwnKey, getProposerData).hash

(* C19: once the chain is initialized, whatever calls have completed, Head
   is the persisted head block, the canonical hash at Head's height is Head's
   hash and Head is stored under it, and for every height h from 2 to Head's
   the canonical block at h is stored, has height h and names the canonical
   hash at h - 1 as its parent; the canonical block at 1 is the genesis. *)
C19_CanonicalChainUnbroken ==
    Initialized =>
        /\ GetHead = chainHead
        /\ ReadCanonicalHash(repo, Height(chainHead)) = Hash(chainHead)
        /\ ReadBlock(repo, Hash(chainHead)) = chainHead
        /\ Height(GetBlockByHeight(1)) = 1
        /\ GetBlockByHeight(1).Header.ParentHash = ZeroHash
        /\ \A h \in 2..Height(chainHead) :
              /\ GetBlockByHeight(h) # NoBlock
              /\ Height(GetBlockByHeight(h)) = h
              /\ GetBlockByHeight(h).Header.ParentHash = ReadCanonicalHash(repo, h - 1)
              /\ Hash(GetBlockByHeight(h)) = ReadCanonicalHash(repo, h)

(* a chain of an empty and a proposed block above genesis, after a failed
   AddBlock *)
C19_Witness ==
    /\ Height(chainHead) = MaxHeight
    /\ \E h \in 2..MaxHeight : IsEmpty(GetBlockByHeight(h))
    /\ \E h \in 2..MaxHeight : ~IsEmpty(GetBlockByHeight(h))
    /\ last.op = "GenerateEmptyBlock"

====
